---- MODULE Spec2Model ----
(***************************************************************************)
(* Model of the candle-wasm sentence embedding engine                       *)
(* (src/embeddings/candle-wasm/src/lib.rs): the EmbeddingEngine lifecycle   *)
(* (new / load / is_ready), the embed and embed_batch entry points, the     *)
(* batch preparation of embed_internal, mean_pooling, l2_normalize and the  *)
(* free function cosine_similarity.                                         *)
(*                                                                         *)
(* The tokenizer, the BERT forward pass and the deserialisation done by     *)
(* load are external collaborators: load picks the behaviour of the         *)
(* tokenizer and of the model it installs, or the step it fails at.  f32    *)
(* values are modelled by small integers, which f32 represents exactly; a   *)
(* quotient is kept as a numerator/denominator pair and a clamped value as  *)
(* a decimal <<mantissa, exponent>>.                                        *)
(***************************************************************************)
EXTENDS Integers, Sequences, FiniteSets, TLC

VARIABLES model, tokenizer, pooling, call

vars == <<model, tokenizer, pooling, call>>

\* Program constants (lib.rs:45-46).
HIDDEN_SIZE == 384
MAX_SEQUENCE_LENGTH == 256

\* Bounds of the model.
MaxTexts == 2      \* texts per embed_batch call in the engine specification
MaxBatch == 2      \* sequences per batch in the batch-builder specification
MaxTokLen == 2     \* tokens per short sequence
MaxRows == 2       \* rows of the pooling inputs
MaxCols == 2       \* columns of the pooling inputs
MaxVecLen == 2     \* length of the cosine_similarity inputs

Min(a, b) == IF a < b THEN a ELSE b
Max(a, b) == IF a > b THEN a ELSE b

\* The sum of s[lo..hi], by halves.
RECURSIVE SumRange(_, _, _)
SumRange(s, lo, hi) ==
    IF lo > hi THEN 0
    ELSE IF lo = hi THEN s[lo]
    ELSE LET mid == (lo + hi) \div 2
         IN SumRange(s, lo, mid) + SumRange(s, mid + 1, hi)

SumSeq(s) == SumRange(s, 1, Len(s))

\* Option<T>: None or Some.
None == "None"
Some == "Some"

(***************************************************************************)
(* Results: Ok(value), Err(kind) and a Rust panic (index out of bounds).    *)
(* The error kinds name the JsValue messages of the source.                 *)
(***************************************************************************)
Ok(v) == [kind |-> "Ok", value |-> v]
Err(e) == [kind |-> "Err", err |-> e]
Panic == [kind |-> "Panic"]

\* "Model not loaded. ..." / "Tokenizer not loaded. ..." (lib.rs:180,184)
NotLoaded == "NotLoaded"
\* "Tokenization failed: ..." (lib.rs:189)
TokenizationFailure == "TokenizationFailure"
\* "Failed to create ... tensor", "Mask multiplication failed" (lib.rs:233-244,298)
ShapeMismatch == "ShapeMismatch"
\* "Model inference failed: ..." (lib.rs:249)
InferenceFailure == "InferenceFailure"
\* "Item at index {} is not a string" (lib.rs:153)
InputTypeError == "InputTypeError"
\* "No embedding generated" (lib.rs:137)
NoEmbedding == "NoEmbedding"

(***************************************************************************)
(* Batch preparation, lib.rs:196-229.  An encoding is a record              *)
(* [ids, mask, types] of three sequences (Encoding::get_ids,                *)
(* get_attention_mask, get_type_ids).                                       *)
(***************************************************************************)
RECURSIVE LongestIds(_)
LongestIds(encodings) ==
    IF encodings = <<>> THEN 0
    ELSE Max(Len(Head(encodings).ids), LongestIds(Tail(encodings)))

\* The batch width without the cap.
MaxLenUncapped(encodings) == LongestIds(encodings)

\* lib.rs:197-202
MaxLen(encodings) == Min(LongestIds(encodings), MAX_SEQUENCE_LENGTH)

\* lib.rs:214
SeqLen(encoding, max_len) == Min(Len(encoding.ids), max_len)

\* lib.rs:217-221: ids[i], mask[i], types[i] for i in 0..seq_len; an index at
\* or beyond the length of mask or types panics.
RowPanics(encoding, max_len) ==
    \/ Len(encoding.mask) < SeqLen(encoding, max_len)
    \/ Len(encoding.types) < SeqLen(encoding, max_len)

\* Padding with 1 instead of 0.
PaddingOnes(seq_len, max_len) == [i \in 1..(max_len - seq_len) |-> 1]

\* lib.rs:224-228: one 0 per column in seq_len..max_len.
Padding(seq_len, max_len) == [i \in 1..(max_len - seq_len) |-> 0]

\* A row that keeps the last seq_len tokens instead of the first.
PushRowTail(field, seq_len, max_len) ==
    [i \in 1..seq_len |-> field[Len(field) - seq_len + i]]
        \o [i \in 1..(max_len - seq_len) |-> 0]

\* lib.rs:217-228 for one field of one encoding: the tokens, then the padding.
\* (`as i64` widens a u32 and keeps its value.)
PushRow(field, seq_len, max_len) ==
    [i \in 1..seq_len |-> field[i]] \o Padding(seq_len, max_len)

\* lib.rs:209-229: the three flat vectors, row after row.
RECURSIVE PushRows(_, _)
PushRows(encodings, max_len) ==
    IF encodings = <<>>
    THEN [input_ids |-> <<>>, attention_mask |-> <<>>, token_type_ids |-> <<>>]
    ELSE LET e == Head(encodings)
             n == SeqLen(e, max_len)
             rest == PushRows(Tail(encodings), max_len)
         IN [input_ids      |-> PushRow(e.ids, n, max_len) \o rest.input_ids,
             attention_mask |-> PushRow(e.mask, n, max_len) \o rest.attention_mask,
             token_type_ids |-> PushRow(e.types, n, max_len) \o rest.token_type_ids]

\* Tensor::from_vec(data, (rows, cols)): fails unless data has rows * cols
\* elements; otherwise the row-major tensor [dims |-> shape, at |-> rows].
FromVecOk(data, rows, cols) == Len(data) = rows * cols
FromVec(data, rows, cols) ==
    [dims |-> <<rows, cols>>,
     at |-> [r \in 1..rows |-> [c \in 1..cols |-> data[(r - 1) * cols + c]]]]

\* lib.rs:191-244: the batch of one call, or the way the call ends.
BuildBatch(encodings) ==
    LET batch_size == Len(encodings)
        max_len == MaxLen(encodings)
    IN IF \E k \in 1..batch_size : RowPanics(encodings[k], max_len)
       THEN Panic
       ELSE LET flat == PushRows(encodings, max_len)
            IN IF /\ FromVecOk(flat.input_ids, batch_size, max_len)
                  /\ FromVecOk(flat.attention_mask, batch_size, max_len)
                  /\ FromVecOk(flat.token_type_ids, batch_size, max_len)
               THEN Ok([batch_size |-> batch_size,
                        max_len |-> max_len,
                        input_ids |-> FromVec(flat.input_ids, batch_size, max_len),
                        attention_mask |->
                            FromVec(flat.attention_mask, batch_size, max_len),
                        token_type_ids |->
                            FromVec(flat.token_type_ids, batch_size, max_len)])
               ELSE Err(ShapeMismatch)

(***************************************************************************)
(* Pooling and normalization.  A tensor is [dims |-> shape, at |-> nested   *)
(* sequences].                                                              *)
(***************************************************************************)
\* A decimal m * 10^e, for the clamp limits next to integer-valued floats.
Dec(m, e) == <<m, e>>
\* Tensor::clamp(lo, INFINITY) of an integer-valued x >= 0, 0 < lo < 1.
ClampMin(x, lo) == IF x <= 0 THEN lo ELSE Dec(x, 0)
\* Tensor::div, elementwise: the quotient num / den.
Quot(num, den) == [num |-> num, den |-> den]

\* lib.rs:287-293: the mask of shape [batch, seq] broadcast over the hidden
\* dimension.
ExpandMask(attention_mask, batch_size, seq_len) ==
    [dims |-> <<batch_size, seq_len, HIDDEN_SIZE>>,
     at |-> [r \in 1..batch_size |-> [c \in 1..seq_len |->
                [h \in 1..HIDDEN_SIZE |-> attention_mask.at[r][c]]]]]

\* lib.rs:296-298, Tensor::mul: elementwise, the shapes must be equal.
MulOk(a, b) == a.dims = b.dims
Mul(a, b) ==
    [dims |-> a.dims,
     at |-> [r \in 1..a.dims[1] |-> [c \in 1..a.dims[2] |->
                [h \in 1..a.dims[3] |-> a.at[r][c][h] * b.at[r][c][h]]]]]

\* lib.rs:301-303 and 306-308, Tensor::sum(1): the sum over the sequence
\* dimension.
Sum1(t) ==
    [dims |-> <<t.dims[1], t.dims[3]>>,
     at |-> [r \in 1..t.dims[1] |-> [h \in 1..t.dims[3] |->
                SumSeq([c \in 1..t.dims[2] |-> t.at[r][c][h]])]]]

\* Mean pooling that averages over every position, masked or not.
mean_pooling_unmasked(token_embeddings, attention_mask, batch_size, seq_len) ==
    LET ones == [dims |-> token_embeddings.dims,
                 at |-> [r \in 1..batch_size |-> [c \in 1..seq_len |->
                            [h \in 1..HIDDEN_SIZE |-> 1]]]]
        summed == Sum1(token_embeddings)
        mask_sum == Sum1(ones)
    IN Ok([dims |-> summed.dims,
           at |-> [r \in 1..summed.dims[1] |-> [h \in 1..summed.dims[2] |->
                      Quot(summed.at[r][h],
                           ClampMin(mask_sum.at[r][h], Dec(1, -9)))]]])

\* lib.rs:278-316
mean_pooling(token_embeddings, attention_mask, batch_size, seq_len) ==
    LET mask == ExpandMask(attention_mask, batch_size, seq_len)
    IN IF ~MulOk(token_embeddings, mask)
       THEN Err(ShapeMismatch)
       ELSE LET summed == Sum1(Mul(token_embeddings, mask))
                mask_sum == Sum1(mask)
            IN Ok([dims |-> summed.dims,
                   at |-> [r \in 1..summed.dims[1] |-> [h \in 1..summed.dims[2] |->
                              Quot(summed.at[r][h],
                                   ClampMin(mask_sum.at[r][h], Dec(1, -9)))]]])

\* lib.rs:257-262: narrow(1, 0, 1) needs a first position; squeeze(1).
cls_pooling(output) ==
    IF output.dims[2] < 1
    THEN Err(ShapeMismatch)
    ELSE Ok([dims |-> <<output.dims[1], output.dims[3]>>,
             at |-> [r \in 1..output.dims[1] |-> [h \in 1..output.dims[3] |->
                        Quot(output.at[r][1][h], Dec(1, 0))]]])

\* lib.rs:319-333.  The elements of one pooled row share their denominator d,
\* so the row's norm is sqrt(sum of num^2) / d: it is kept as that pair, or as
\* the clamp limit 1e-12 when the sum is 0.  A normalized row is kept as the
\* pooled row and the norm it is divided by (broadcast_div).
Norm(row) ==
    LET ss == SumSeq([h \in 1..Len(row) |-> row[h].num * row[h].num])
    IN IF ss = 0 THEN [clamped |-> TRUE, limit |-> Dec(1, -12)]
       ELSE [clamped |-> FALSE, sqrt_of |-> ss, over |-> row[1].den]

l2_normalize(embeddings) ==
    [dims |-> embeddings.dims,
     at |-> [r \in 1..embeddings.dims[1] |->
                [row |-> embeddings.at[r], div_by |-> Norm(embeddings.at[r])]]]

(***************************************************************************)
(* External collaborators.  What a tokenizer or a model does is fixed by    *)
(* the bytes it was loaded from; the kinds below are the behaviours the     *)
(* engine can meet.                                                         *)
(***************************************************************************)
TokenizerKinds ==
    {"plain", "padding", "failing", "short_mask", "long_mask", "short_types"}
ModelKinds == {"sound", "failing", "wrong_hidden"}

\* JavaScript values handed to embed_batch.
JsString(s) == [type |-> "string", val |-> s]
JsNumber(n) == [type |-> "number", val |-> n]
Texts == {"hello", "hello world"}
JsValues == {JsString(t) : t \in Texts} \cup {JsNumber("42")}

\* JsValue::as_string (lib.rs:151-152): Some(text) for a string, else None.
as_string(item) ==
    IF item.type = "string" THEN [is_some |-> TRUE, val |-> item.val]
    ELSE [is_some |-> FALSE]

WordIds(text) ==
    CASE text = "hello" -> <<7592>>
      [] text = "hello world" -> <<7592, 2088>>

Ones(n) == [i \in 1..n |-> 1]
Zeros(n) == [i \in 1..n |-> 0]

\* One Encoding of Tokenizer::encode_batch, by the kind of tokenizer: "plain"
\* flags every token 1; "padding" right-pads to a fixed length with pad tokens
\* flagged 0; the last three break the equal-length contract of an Encoding.
Encode(kind, text) ==
    LET ids == WordIds(text)
        n == Len(ids)
    IN CASE kind = "padding" ->
              [ids |-> ids \o Zeros(MaxTokLen - n),
               mask |-> Ones(n) \o Zeros(MaxTokLen - n),
               types |-> Zeros(Max(n, MaxTokLen))]
         [] kind = "short_mask" ->
              [ids |-> ids, mask |-> Ones(Max(n - 1, 0)), types |-> Zeros(n)]
         [] kind = "long_mask" ->
              [ids |-> ids, mask |-> Ones(n + 1), types |-> Zeros(n)]
         [] kind = "short_types" ->
              [ids |-> ids, mask |-> Ones(n), types |-> Zeros(Max(n - 1, 0))]
         [] OTHER ->
              [ids |-> ids, mask |-> Ones(n), types |-> Zeros(n)]

\* tokenizer.encode_batch(texts, true) (lib.rs:187-189): one encoding per
\* text, in order, or an error.
encode_batch(kind, texts) ==
    IF kind = "failing" THEN Err(TokenizationFailure)
    ELSE Ok([k \in 1..Len(texts) |-> Encode(kind, texts[k])])

\* model.forward (lib.rs:247-249): token embeddings of shape
\* [batch, seq, hidden], a function of the inputs, or an error.
forward(kind, input_ids, token_type_ids, attention_mask) ==
    IF kind = "failing" THEN Err(InferenceFailure)
    ELSE LET hidden == IF kind = "wrong_hidden" THEN HIDDEN_SIZE + 1
                       ELSE HIDDEN_SIZE
         IN Ok([dims |-> <<input_ids.dims[1], input_ids.dims[2], hidden>>,
                at |-> [r \in 1..input_ids.dims[1] |->
                          [c \in 1..input_ids.dims[2] |->
                             [h \in 1..hidden |->
                                (input_ids.at[r][c] % 5) * (1 + (h % 2)) + c - 2]]]])

(***************************************************************************)
(* The engine.                                                              *)
(***************************************************************************)
\* lib.rs:120-122
is_ready == model # None /\ tokenizer # None

\* What one call did: its result and how often it invoked the collaborators.
Done(result, tokenizer_calls, model_calls, encodings) ==
    [result |-> result, tokenizer_calls |-> tokenizer_calls,
     model_calls |-> model_calls, encodings |-> encodings]

\* lib.rs:252-274: pooling, normalization, extraction of the rows.
Pool(output, batch) ==
    LET pooled == IF pooling = "Mean"
                  THEN mean_pooling(output, batch.attention_mask,
                                    batch.batch_size, batch.max_len)
                  ELSE cls_pooling(output)
    IN IF pooled.kind # "Ok" THEN pooled
       ELSE Ok(l2_normalize(pooled.value).at)

\* lib.rs:186-275: embed_internal once model and tokenizer are there.
embed_loaded(texts) ==
    LET encoded == encode_batch(tokenizer, texts)
    IN IF encoded.kind # "Ok" THEN Done(encoded, 1, 0, <<>>)
       ELSE LET encodings == encoded.value
            IN IF Len(encodings) = 0 THEN Done(Ok(<<>>), 1, 0, encodings)
               ELSE LET built == BuildBatch(encodings)
                    IN IF built.kind # "Ok" THEN Done(built, 1, 0, encodings)
                       ELSE LET batch == built.value
                                output == forward(model, batch.input_ids,
                                                  batch.token_type_ids,
                                                  batch.attention_mask)
                            IN IF output.kind # "Ok"
                               THEN Done(output, 1, 1, encodings)
                               ELSE Done(Pool(output.value, batch), 1, 1,
                                         encodings)

\* A fallback to an empty result where the source reports NotLoaded.
embed_internal_quiet(texts) ==
    IF model = None \/ tokenizer = None THEN Done(Ok(<<>>), 0, 0, <<>>)
    ELSE embed_loaded(texts)

\* lib.rs:176-275
embed_internal(texts) ==
    IF model = None THEN Done(Err(NotLoaded), 0, 0, <<>>)
    ELSE IF tokenizer = None THEN Done(Err(NotLoaded), 0, 0, <<>>)
    ELSE embed_loaded(texts)

\* lib.rs:70-77
Init ==
    /\ model = None
    /\ tokenizer = None
    /\ pooling = "Mean"
    /\ call = [op |-> "new"]

\* lib.rs:89-116.  stage is where the deserialisation fails, or "ok".
LoadStages == {"config", "safetensors", "model", "tokenizer"}
\* A load that drops what was loaded before when it fails.
LoadResetting(stage, model_kind, tokenizer_kind) ==
    /\ IF stage \in LoadStages
       THEN /\ model' = None
            /\ tokenizer' = None
            /\ call' = [op |-> "load", result |-> Err(stage)]
       ELSE /\ model' = model_kind
            /\ tokenizer' = tokenizer_kind
            /\ call' = [op |-> "load", result |-> Ok("unit")]
    /\ UNCHANGED pooling

Load(stage, model_kind, tokenizer_kind) ==
    /\ IF stage \in LoadStages
       THEN /\ UNCHANGED <<model, tokenizer>>
            /\ call' = [op |-> "load", result |-> Err(stage)]
       ELSE /\ model' = model_kind
            /\ tokenizer' = tokenizer_kind
            /\ call' = [op |-> "load", result |-> Ok("unit")]
    /\ UNCHANGED pooling

\* lib.rs:120-122
IsReady ==
    /\ call' = [op |-> "is_ready", result |-> Ok(is_ready)]
    /\ UNCHANGED <<model, tokenizer, pooling>>

\* lib.rs:128-139
Embed(text) ==
    LET done == embed_internal(<<text>>)
        result == IF done.result.kind # "Ok" THEN done.result
                  ELSE IF Len(done.result.value) > 0
                       THEN Ok(done.result.value[1])
                       ELSE Err(NoEmbedding)
    IN /\ call' = [done EXCEPT !.result = result] @@
                  [op |-> "embed", args |-> <<text>>]
       /\ UNCHANGED <<model, tokenizer, pooling>>

\* lib.rs:149-155: the index of the first item that is no string, 0 if none.
RECURSIVE FirstNonString(_, _)
FirstNonString(items, i) ==
    IF i > Len(items) THEN 0
    ELSE IF ~as_string(items[i]).is_some THEN i
    ELSE FirstNonString(items, i + 1)

\* embed_batch without the early return for an empty list.
EmbedBatchNoShortCircuit(items) ==
    LET bad == FirstNonString(items, 1)
        rust_texts == [i \in 1..Len(items) |-> as_string(items[i]).val]
        done == IF bad # 0
                THEN Done([kind |-> "Err", err |-> InputTypeError,
                           index |-> bad - 1], 0, 0, <<>>)
                ELSE embed_internal(rust_texts)
    IN /\ call' = done @@ [op |-> "embed_batch", args |-> items]
       /\ UNCHANGED <<model, tokenizer, pooling>>

\* embed_batch that embeds the strings before the first item that is none,
\* and reports that item afterwards.
EmbedBatchLateTypeCheck(items) ==
    LET bad == FirstNonString(items, 1)
        n == IF bad = 0 THEN Len(items) ELSE bad - 1
        rust_texts == [i \in 1..n |-> as_string(items[i]).val]
        done == IF n = 0 THEN Done(Ok(<<>>), 0, 0, <<>>)
                ELSE embed_internal(rust_texts)
        late == IF bad # 0 /\ done.result.kind = "Ok"
                THEN [done EXCEPT !.result = [kind |-> "Err",
                                              err |-> InputTypeError,
                                              index |-> bad - 1]]
                ELSE done
    IN /\ call' = late @@ [op |-> "embed_batch", args |-> items]
       /\ UNCHANGED <<model, tokenizer, pooling>>

\* lib.rs:146-173
EmbedBatch(items) ==
    LET bad == FirstNonString(items, 1)
        rust_texts == [i \in 1..Len(items) |-> as_string(items[i]).val]
        done == IF bad # 0
                THEN Done([kind |-> "Err", err |-> InputTypeError,
                           index |-> bad - 1], 0, 0, <<>>)
                ELSE IF Len(rust_texts) = 0 THEN Done(Ok(<<>>), 0, 0, <<>>)
                ELSE embed_internal(rust_texts)
    IN /\ call' = done @@ [op |-> "embed_batch", args |-> items]
       /\ UNCHANGED <<model, tokenizer, pooling>>

\* lib.rs:337-339
Dimension ==
    /\ call' = [op |-> "dimension", result |-> Ok(HIDDEN_SIZE)]
    /\ UNCHANGED <<model, tokenizer, pooling>>

\* lib.rs:343-345
MaxSequenceLength ==
    /\ call' = [op |-> "max_sequence_length", result |-> Ok(MAX_SEQUENCE_LENGTH)]
    /\ UNCHANGED <<model, tokenizer, pooling>>

RECURSIVE SeqsUpTo(_, _)
SeqsUpTo(S, n) ==
    IF n = 0 THEN {<<>>}
    ELSE LET shorter == SeqsUpTo(S, n - 1)
         IN shorter \cup {Append(s, x) : s \in shorter, x \in S}

Next ==
    \/ \E stage \in LoadStages : Load(stage, None, None)
    \/ \E m \in ModelKinds, t \in TokenizerKinds : Load("ok", m, t)
    \/ IsReady
    \/ \E text \in Texts : Embed(text)
    \/ \E items \in SeqsUpTo(JsValues, MaxTexts) : EmbedBatch(items)
    \/ Dimension
    \/ MaxSequenceLength

Spec == Init /\ [][Next]_vars

(***************************************************************************)
(* Properties of the engine, checked under Spec.                            *)
(***************************************************************************)
IsEmbedCall == call.op \in {"embed", "embed_batch"}

\* The texts of the call, when every argument is a string.
AllStrings ==
    call.op = "embed" \/ \A i \in 1..Len(call.args) : call.args[i].type = "string"

WellFormed(encoding) ==
    /\ Len(encoding.mask) = Len(encoding.ids)
    /\ Len(encoding.types) = Len(encoding.ids)

\* C1 as stated: every embed call with texts (the empty list included) on an
\* engine that is not loaded fails with NotLoaded.
C1_EveryCallNotLoaded ==
    (IsEmbedCall /\ AllStrings /\ ~is_ready) => call.result = Err(NotLoaded)

\* C1 amended: on an engine that is not loaded, an embed call with at least
\* one text fails with NotLoaded and invokes no collaborator; embed_batch of
\* the empty list returns the empty list.
C1_NotLoaded ==
    (IsEmbedCall /\ AllStrings /\ ~is_ready) =>
        /\ call.tokenizer_calls = 0
        /\ call.model_calls = 0
        /\ IF call.args = <<>> THEN call.result = Ok(<<>>)
           ELSE call.result = Err(NotLoaded)

C1_Witness ==
    /\ call.op = "embed_batch" /\ ~is_ready
    /\ Len(call.args) = 2 /\ AllStrings
    /\ call.result = Err(NotLoaded)

\* C2: embed_batch of the empty list returns the empty list and invokes
\* neither the tokenizer nor the model.
C2_EmptyBatch ==
    (call.op = "embed_batch" /\ call.args = <<>>) =>
        /\ call.result = Ok(<<>>)
        /\ call.tokenizer_calls = 0
        /\ call.model_calls = 0

C2_Witness ==
    /\ is_ready /\ tokenizer = "plain" /\ model = "sound"
    /\ call.op = "embed_batch" /\ call.args = <<>>
    /\ call.result = Ok(<<>>)

\* C6: when the tokenizer returns an encoding whose ids, mask and types
\* differ in length, the call fails with ShapeMismatch.
C6_ShapeMismatch ==
    (/\ IsEmbedCall
     /\ call.tokenizer_calls = 1
     /\ \E k \in 1..Len(call.encodings) : ~WellFormed(call.encodings[k]))
        => call.result = Err(ShapeMismatch)

\* C7: is_ready() is false after new, equals "model and tokenizer are both
\* loaded", never goes from true to false, and a failed load changes neither
\* field.
C7_Ready ==
    /\ ~is_ready
    /\ [][/\ is_ready => is_ready'
          /\ (call'.op = "is_ready") =>
                call'.result = Ok(model' \in ModelKinds /\ tokenizer' \in TokenizerKinds)
          /\ (call'.op = "load" /\ call'.result.kind = "Err") =>
                (model' = model /\ tokenizer' = tokenizer)
          /\ (call'.op = "load" /\ call'.result.kind = "Ok") => is_ready'
          /\ (call'.op # "load") => (model' = model /\ tokenizer' = tokenizer)
         ]_vars

C7_Witness ==
    /\ is_ready
    /\ call.op = "load" /\ call.result.kind = "Err"

\* C10: embed_batch of a list with an item that is no string fails with the
\* input-type error, returns no embeddings and invokes neither the tokenizer
\* nor the model.
C10_InputType ==
    (call.op = "embed_batch" /\ ~AllStrings) =>
        /\ call.result.kind = "Err"
        /\ call.result.err = InputTypeError
        /\ call.tokenizer_calls = 0
        /\ call.model_calls = 0

C10_Witness ==
    /\ is_ready /\ tokenizer = "plain" /\ model = "sound"
    /\ call.op = "embed_batch" /\ Len(call.args) = 2
    /\ call.args[1].type = "string" /\ call.args[2].type # "string"
    /\ call.result.kind = "Err"

(***************************************************************************)
(* The batch builder on its own: Init draws the encodings of one batch, the *)
(* action builds the batch.                                                 *)
(***************************************************************************)
\* A token is <<id, attention flag, segment id>>.
Tokens == {<<7592, 1, 1>>, <<0, 0, 0>>}

EncodingOf(tokens) ==
    [ids   |-> [i \in 1..Len(tokens) |-> tokens[i][1]],
     mask  |-> [i \in 1..Len(tokens) |-> tokens[i][2]],
     types |-> [i \in 1..Len(tokens) |-> tokens[i][3]]]

ShortEncodings == {EncodingOf(t) : t \in SeqsUpTo(Tokens, MaxTokLen)}

\* Encodings of MAX_SEQUENCE_LENGTH tokens and of one more.
LongEncoding(n) ==
    [ids   |-> [i \in 1..n |-> 1000 + i],
     mask  |-> Ones(n),
     types |-> [i \in 1..n |-> i % 2]]
LongEncodings ==
    {LongEncoding(n) : n \in {MAX_SEQUENCE_LENGTH, MAX_SEQUENCE_LENGTH + 1}}

BatchInputs ==
    SeqsUpTo(ShortEncodings \cup LongEncodings, MaxBatch) \ {<<>>}

InitBatch ==
    /\ model = None
    /\ tokenizer = None
    /\ pooling = "Mean"
    /\ \E e \in BatchInputs : call = [op |-> "encodings", encodings |-> e]

BuildBatchStep ==
    /\ call.op = "encodings"
    /\ call' = [op |-> "build_batch", encodings |-> call.encodings,
                result |-> BuildBatch(call.encodings)]
    /\ UNCHANGED <<model, tokenizer, pooling>>

NextBatch == BuildBatchStep

SpecBatch == InitBatch /\ [][NextBatch]_vars

\* The longest sequence of the batch, and the width the batch should have.
Longest(encodings) ==
    CHOOSE n \in {Len(encodings[k].ids) : k \in 1..Len(encodings)} :
        \A k \in 1..Len(encodings) : Len(encodings[k].ids) <= n
Width(encodings) ==
    IF Longest(encodings) <= MAX_SEQUENCE_LENGTH THEN Longest(encodings)
    ELSE MAX_SEQUENCE_LENGTH

HasShape(t, rows, cols) ==
    /\ t.dims = <<rows, cols>>
    /\ Len(t.at) = rows
    /\ \A r \in 1..rows : Len(t.at[r]) = cols

\* C3: the three grids of a batch of N >= 1 sequences have N rows of
\* max_len = min(longest sequence, MAX_SEQUENCE_LENGTH) entries each.
C3_Shape ==
    (call.op = "build_batch") =>
        /\ call.result.kind = "Ok"
        /\ LET b == call.result.value
               n == Len(call.encodings)
               w == Width(call.encodings)
           IN /\ b.batch_size = n
              /\ b.max_len = w
              /\ HasShape(b.input_ids, n, w)
              /\ HasShape(b.attention_mask, n, w)
              /\ HasShape(b.token_type_ids, n, w)

C3_Witness ==
    /\ call.op = "build_batch" /\ call.result.kind = "Ok"
    /\ Len(call.encodings) = 2
    /\ Len(call.encodings[1].ids) = 1
    /\ Len(call.encodings[2].ids) = MAX_SEQUENCE_LENGTH + 1
    /\ call.result.value.max_len = MAX_SEQUENCE_LENGTH

\* C4: at and beyond a row's sequence length the three grids hold 0; the
\* attention mask holds 1 exactly at the columns that carry a token the
\* tokenizer flagged 1, and 0 at every other column.
C4_Padding ==
    (call.op = "build_batch" /\ call.result.kind = "Ok") =>
        LET b == call.result.value
        IN \A r \in 1..b.batch_size : \A c \in 1..b.max_len :
              LET e == call.encodings[r]
              IN /\ c > Len(e.ids) =>
                       /\ b.input_ids.at[r][c] = 0
                       /\ b.attention_mask.at[r][c] = 0
                       /\ b.token_type_ids.at[r][c] = 0
                 /\ b.attention_mask.at[r][c] \in {0, 1}
                 /\ b.attention_mask.at[r][c] = 1 <=>
                       (c <= Len(e.ids) /\ e.mask[c] = 1)

C4_Witness ==
    /\ call.op = "build_batch" /\ call.result.kind = "Ok"
    /\ Len(call.encodings) = 2
    /\ call.encodings[1] = EncodingOf(<<>>)
    /\ call.encodings[2] = EncodingOf(<<<<7592, 1, 1>>, <<0, 0, 0>>>>)
    /\ call.result.value.attention_mask.at = <<<<0, 0>>, <<1, 0>>>>

\* C5: every row starts with the first min(len, max_len) tokens of its
\* sequence, in order; a sequence longer than MAX_SEQUENCE_LENGTH is cut to
\* MAX_SEQUENCE_LENGTH tokens and the call does not fail.
C5_Prefix ==
    (call.op = "build_batch") =>
        /\ call.result.kind = "Ok"
        /\ LET b == call.result.value
           IN \A r \in 1..Len(call.encodings) :
                 LET e == call.encodings[r]
                     kept == IF Len(e.ids) < b.max_len THEN Len(e.ids)
                             ELSE b.max_len
                 IN /\ Len(e.ids) > MAX_SEQUENCE_LENGTH =>
                          kept = MAX_SEQUENCE_LENGTH
                    /\ \A c \in 1..kept :
                          /\ b.input_ids.at[r][c] = e.ids[c]
                          /\ b.attention_mask.at[r][c] = e.mask[c]
                          /\ b.token_type_ids.at[r][c] = e.types[c]

C5_Witness ==
    /\ call.op = "build_batch" /\ call.result.kind = "Ok"
    /\ Len(call.encodings) = 2
    /\ Len(call.encodings[1].ids) = MAX_SEQUENCE_LENGTH + 1
    /\ Len(call.encodings[2].ids) = 2
    /\ Len(call.result.value.input_ids.at[1]) = MAX_SEQUENCE_LENGTH
    /\ call.result.value.input_ids.at[1][MAX_SEQUENCE_LENGTH]
           = call.encodings[1].ids[MAX_SEQUENCE_LENGTH]

(***************************************************************************)
(* Mean pooling on its own: Init draws an attention mask and the token      *)
(* embeddings of the model, the action pools them.                          *)
(***************************************************************************)
PoolVals == {-3, 1, 2}

Masks(rows, cols) == [1..rows -> [1..cols -> {0, 1}]]

\* Token embeddings that differ by row, column and hidden index and are
\* nowhere 0.
TokenEmbeddings(v, rows, cols) ==
    [dims |-> <<rows, cols, HIDDEN_SIZE>>,
     at |-> [r \in 1..rows |-> [c \in 1..cols |-> [h \in 1..HIDDEN_SIZE |->
                (v + 5 * r + 10 * c) * (1 + (h % 2))]]]]

InitPool ==
    /\ model = None
    /\ tokenizer = None
    /\ pooling = "Mean"
    /\ \E rows \in 1..MaxRows, cols \in 1..MaxCols :
         \E m \in Masks(rows, cols), v \in PoolVals :
            call = [op |-> "pooling_input",
                    token_embeddings |-> TokenEmbeddings(v, rows, cols),
                    attention_mask |-> [dims |-> <<rows, cols>>, at |-> m]]

MeanPoolingStep ==
    /\ call.op = "pooling_input"
    /\ call' = [call EXCEPT !.op = "mean_pooling"] @@
               [result |-> mean_pooling(call.token_embeddings,
                                        call.attention_mask,
                                        call.attention_mask.dims[1],
                                        call.attention_mask.dims[2])]
    /\ UNCHANGED <<model, tokenizer, pooling>>

NextPool == MeanPoolingStep

SpecPool == InitPool /\ [][NextPool]_vars

RECURSIVE SumOver(_, _, _, _)
\* The sum of grid[r][c][h] over the columns c of the set cols.
SumOver(grid, r, h, cols) ==
    IF cols = {} THEN 0
    ELSE LET c == CHOOSE x \in cols : TRUE
         IN grid[r][c][h] + SumOver(grid, r, h, cols \ {c})

\* C9: every pooled row is the sum of the token embeddings at the positions
\* whose mask is 1, over the number of those positions (over 1e-9 when there
\* is none), whatever the embeddings at the other positions; a row without
\* such a position pools to the zero vector, not to an error.
C9_MeanPooling ==
    (call.op = "mean_pooling") =>
        /\ call.result.kind = "Ok"
        /\ LET rows == call.attention_mask.dims[1]
               cols == call.attention_mask.dims[2]
               out == call.result.value
           IN /\ out.dims = <<rows, HIDDEN_SIZE>>
              /\ \A r \in 1..rows :
                    LET real == {c \in 1..cols : call.attention_mask.at[r][c] = 1}
                        count == Cardinality(real)
                    IN \A h \in 1..HIDDEN_SIZE :
                          /\ out.at[r][h].num =
                                SumOver(call.token_embeddings.at, r, h, real)
                          /\ out.at[r][h].den =
                                (IF count = 0 THEN <<1, -9>> ELSE <<count, 0>>)
                          /\ count = 0 => out.at[r][h].num = 0

C9_Witness ==
    /\ call.op = "mean_pooling" /\ call.result.kind = "Ok"
    /\ call.attention_mask.at = <<<<0, 0>>, <<1, 0>>>>
    /\ call.result.value.at[1][1] = [num |-> 0, den |-> <<1, -9>>]
    /\ call.result.value.at[2][1].den = <<1, 0>>
    /\ call.token_embeddings.at[2][2][1] # 0

(***************************************************************************)
(* cosine_similarity on its own: Init draws the two vectors, the action     *)
(* applies the function.                                                    *)
(***************************************************************************)
CosVals == {-1, 0, 2}
Vectors == SeqsUpTo(CosVals, MaxVecLen)

\* The f32 num / (sqrt(norm_a) * sqrt(norm_b)); 0.0 is 0 / (sqrt 1 * sqrt 1).
F32Ratio(num, norm_a, norm_b) == [num |-> num, norm_a |-> norm_a, norm_b |-> norm_b]
F32Zero == F32Ratio(0, 1, 1)

\* lib.rs:365-369
Dot(a, b) == SumSeq([i \in 1..Len(a) |-> a[i] * b[i]])

\* cosine_similarity without the test for a zero norm.
cosine_similarity_unguarded(a, b) ==
    IF Len(a) # Len(b) \/ Len(a) = 0 THEN F32Zero
    ELSE F32Ratio(Dot(a, b), Dot(a, a), Dot(b, b))

\* lib.rs:356-376
cosine_similarity(a, b) ==
    IF Len(a) # Len(b) \/ Len(a) = 0 THEN F32Zero
    ELSE LET dot == Dot(a, b)
             norm_a == Dot(a, a)
             norm_b == Dot(b, b)
         IN IF norm_a = 0 \/ norm_b = 0 THEN F32Zero
            ELSE F32Ratio(dot, norm_a, norm_b)

InitCos ==
    /\ model = None
    /\ tokenizer = None
    /\ pooling = "Mean"
    /\ \E a \in Vectors, b \in Vectors : call = [op |-> "vectors", a |-> a, b |-> b]

CosineSimilarityStep ==
    /\ call.op = "vectors"
    /\ call' = [op |-> "cosine_similarity", a |-> call.a, b |-> call.b,
                result |-> cosine_similarity(call.a, call.b)]
    /\ UNCHANGED <<model, tokenizer, pooling>>

NextCos == CosineSimilarityStep

SpecCos == InitCos /\ [][NextCos]_vars

AllZero(v) == \A i \in 1..Len(v) : v[i] = 0

\* The ratio is the f32 0.0: a zero numerator over nonzero norms (0 / 0 is
\* NaN).
IsF32Zero(x) == x.num = 0 /\ x.norm_a # 0 /\ x.norm_b # 0

\* C8: cosine_similarity returns exactly 0.0 when the vectors differ in
\* length, when they are empty, and when one of them has only zero
\* components.
C8_CosineZero ==
    (/\ call.op = "cosine_similarity"
     /\ \/ Len(call.a) # Len(call.b)
        \/ call.a = <<>>
        \/ AllZero(call.a)
        \/ AllZero(call.b))
        => IsF32Zero(call.result)

C8_Witness ==
    /\ call.op = "cosine_similarity"
    /\ call.a = <<0, 0>> /\ call.b = <<2, -1>>
    /\ call.result = F32Zero

====
